---- MODULE Spec2Model ----
(***************************************************************************)
(* Model of the dice engine of rpg-tools (scripts/dice.py): the DiceRoll   *)
(* object (parse in the constructor, roll(), format_result()) and the      *)
(* notation validators of scripts/lib/validation.py.                       *)
(*                                                                         *)
(* A notation is a sequence of one-character strings.  Python's None is    *)
(* NoneStr for an optional string, None for an optional integer and <<>>   *)
(* for self.result / self.error.  Fudge sides ('f') are the integer FUDGE. *)
(***************************************************************************)
EXTENDS Integers, Sequences, FiniteSets, TLC

\* ------------------------------------------------------------------ bounds
MaxCount == 3     \* largest dice count written in a notation
MaxSides == 3     \* largest side count written in a notation
MaxValue == 3     \* largest keep/drop or reroll value written in a notation
MaxExtra == 2     \* dice an exploding group may append before the run is cut
MaxCalls == 3     \* roll() / format_result() calls made on one object
MaxRedraws == 3   \* draws a direct call of 'reroll always' may make before it is cut

\* ------------------------------------------------------- Python constants
None == -1        \* an optional int that is None (parsed ints are >= 0)
FUDGE == -2       \* sides == 'f'
NoneStr == "None" \* an optional string that is None

\* ------------------------------------------------------------- characters
DigitChars == <<"0", "1", "2", "3", "4", "5", "6", "7", "8", "9">>

IsDigit(c) == \E k \in 1..10 : DigitChars[k] = c

DigitVal(c) == (CHOOSE k \in 1..10 : DigitChars[k] = c) - 1

Upper == <<"D", "F", "K", "H", "L", "R", "P", "X", "E">>
Lowered == <<"d", "f", "k", "h", "l", "r", "p", "x", "e">>

\* str.lower() on one character
LowerChar(c) ==
    IF \E k \in 1..Len(Upper) : Upper[k] = c
    THEN Lowered[CHOOSE k \in 1..Len(Upper) : Upper[k] = c]
    ELSE c

\* notation.lower().replace(" ", "")
Normalize(s) ==
    SelectSeq([k \in 1..Len(s) |-> LowerChar(s[k])], LAMBDA c : c # " ")

\* int() of a string of decimal digits
RECURSIVE ParseInt(_)
ParseInt(ds) ==
    IF ds = <<>> THEN 0
    ELSE ParseInt(SubSeq(ds, 1, Len(ds) - 1)) * 10 + DigitVal(ds[Len(ds)])

\* int() of a [+-]\d+ token
ParseSigned(tok) ==
    IF tok[1] = "-" THEN 0 - ParseInt(Tail(tok)) ELSE ParseInt(Tail(tok))

\* str() of a non-negative integer, and of any integer
RECURSIVE StrNat(_)
StrNat(n) ==
    IF n < 10 THEN <<DigitChars[n + 1]>>
    ELSE StrNat(n \div 10) \o <<DigitChars[(n % 10) + 1]>>

StrInt(n) == IF n < 0 THEN <<"-">> \o StrNat(0 - n) ELSE StrNat(n)

\* ------------------------------------------------- the dice-group pattern
\* s[p..] starts with the word w
StartsWith(s, p, w) ==
    /\ p + Len(w) - 1 <= Len(s)
    /\ SubSeq(s, p, p + Len(w) - 1) = w

\* position after the longest run of digits that starts at p (greedy \d*)
RECURSIVE DigitsEnd(_, _)
DigitsEnd(s, p) ==
    IF p <= Len(s) /\ IsDigit(s[p]) THEN DigitsEnd(s, p + 1) ELSE p

\* index of the first alternative that matches at p, 0 when none does:
\* a regex alternation takes its branches in the order written
RECURSIVE FirstAltFrom(_, _, _, _)
FirstAltFrom(s, p, alts, k) ==
    IF k > Len(alts) THEN 0
    ELSE IF StartsWith(s, p, alts[k]) THEN k
    ELSE FirstAltFrom(s, p, alts, k + 1)

FirstAlt(s, p, alts) == FirstAltFrom(s, p, alts, 1)

\* (kh|kl|dh|dl|r|rr)
ModAlts == << <<"k", "h">>, <<"k", "l">>, <<"d", "h">>, <<"d", "l">>,
              <<"r">>, <<"r", "r">> >>

\* (>=|<=|>|<|=)
OpAlts == << <<">", "=">>, <<"<", "=">>, <<">">>, <<"<">>, <<"=">> >>

\* end of (!{1,2}p?) matched at p; p itself when there is no '!'
ExplodeEnd(s, p) ==
    IF ~StartsWith(s, p, <<"!">>) THEN p
    ELSE LET b == IF StartsWith(s, p + 1, <<"!">>) THEN p + 2 ELSE p + 1
         IN  IF StartsWith(s, b, <<"p">>) THEN b + 1 ELSE b

NoMatch == [ok |-> FALSE, end |-> 0, groups |-> <<>>]

\* position after (\d+|f) tried at p; p itself when neither branch matches
SidesEnd(s, p) ==
    IF p <= Len(s) /\ IsDigit(s[p]) THEN DigitsEnd(s, p)
    ELSE IF StartsWith(s, p, <<"f">>) THEN p + 1
    ELSE p

\* position after the alternative FirstAlt chose at p (k = 0: none)
AltEnd(p, alts, k) == IF k = 0 THEN p ELSE p + Len(alts[k])

\* position after the optional (\d+)? that follows a chosen alternative
ValueEnd(s, p, k) == IF k = 0 THEN p ELSE DigitsEnd(s, p)

\* the match, given where each part of the pattern ends: the count at c1,
\* the sides at s2, the modifier word at m1, its value at m2, the explode
\* marker at e1, the operator at o1 and the target value at o2
MatchGroups(s, p, c1, s2, m1, m2, e1, o1, o2) ==
    [ok |-> TRUE, end |-> o2,
     groups |-> << SubSeq(s, p, c1 - 1),
                   SubSeq(s, c1 + 1, s2 - 1),
                   SubSeq(s, s2, m1 - 1),
                   SubSeq(s, m1, m2 - 1),
                   SubSeq(s, m2, e1 - 1),
                   SubSeq(s, e1, o1 - 1),
                   SubSeq(s, o1, o2 - 1) >>]

\* (?:(>=|<=|>|<|=)(\d+)?)? tried at e1
MatchTest(s, p, c1, s2, m1, m2, e1, k) ==
    MatchGroups(s, p, c1, s2, m1, m2, e1, AltEnd(e1, OpAlts, k),
                ValueEnd(s, AltEnd(e1, OpAlts, k), k))

\* mutant: a group without a modifier accepts one after the explode marker
MatchExplodeThenModifier(s, p, c1, s2, m1, m2, e1) ==
    IF m1 = s2 /\ FirstAlt(s, e1, ModAlts) # 0
    THEN [ok |-> TRUE,
          end |-> ValueEnd(s, AltEnd(e1, ModAlts, FirstAlt(s, e1, ModAlts)), 1),
          groups |-> << SubSeq(s, p, c1 - 1),
                        SubSeq(s, c1 + 1, s2 - 1),
                        SubSeq(s, e1, AltEnd(e1, ModAlts, FirstAlt(s, e1, ModAlts)) - 1),
                        SubSeq(s, AltEnd(e1, ModAlts, FirstAlt(s, e1, ModAlts)),
                               ValueEnd(s, AltEnd(e1, ModAlts,
                                                  FirstAlt(s, e1, ModAlts)), 1) - 1),
                        SubSeq(s, m2, e1 - 1),
                        <<>>, <<>> >>]
    ELSE MatchTest(s, p, c1, s2, m1, m2, e1, FirstAlt(s, e1, OpAlts))

\* (?:(!{1,2}p?)?)? tried at m2
MatchExplode(s, p, c1, s2, m1, m2, e1) ==
    MatchTest(s, p, c1, s2, m1, m2, e1, FirstAlt(s, e1, OpAlts))

\* (?:(kh|kl|dh|dl|r|rr)(\d+)?)? tried at s2
MatchModifier(s, p, c1, s2, m1, k) ==
    MatchExplode(s, p, c1, s2, m1, ValueEnd(s, m1, k),
                 ExplodeEnd(s, ValueEnd(s, m1, k)))

\* d(\d+|f) tried at c1
MatchSides(s, p, c1, s2, k) ==
    IF ~StartsWith(s, c1, <<"d">>) \/ s2 = c1 + 1 THEN NoMatch
    ELSE MatchModifier(s, p, c1, s2, AltEnd(s2, ModAlts, k), k)

MatchCount(s, p, c1, s2) ==
    MatchSides(s, p, c1, s2, FirstAlt(s, s2, ModAlts))

\* re.match of dice_pattern at position p: the seven capture groups (the
\* empty sequence for a group that took no part) and the position after the
\* match.  Every part after the sides is optional and greedy, so the first
\* attempt of each part is the one the match keeps.
MatchAt(s, p) ==
    MatchCount(s, p, DigitsEnd(s, p), SidesEnd(s, DigitsEnd(s, p) + 1))

\* re.findall(dice_pattern, s): leftmost non-overlapping matches
RECURSIVE FindDiceFrom(_, _)
FindDiceStep(s, p, m) ==
    IF m.ok THEN <<m.groups>> \o FindDiceFrom(s, m.end)
    ELSE FindDiceFrom(s, p + 1)

FindDiceFrom(s, p) ==
    IF p > Len(s) THEN <<>>
    ELSE FindDiceStep(s, p, MatchAt(s, p))

FindDice(s) == FindDiceFrom(s, 1)

\* re.sub(dice_pattern, '', s): what is left once the matches are removed
RECURSIVE SubDiceFrom(_, _)
SubDiceStep(s, p, m) ==
    IF m.ok THEN SubDiceFrom(s, m.end)
    ELSE <<s[p]>> \o SubDiceFrom(s, p + 1)

SubDiceFrom(s, p) ==
    IF p > Len(s) THEN <<>>
    ELSE SubDiceStep(s, p, MatchAt(s, p))

SubDice(s) == SubDiceFrom(s, 1)

\* re.findall(r'([+-]\d+)', r)
RECURSIVE FindModsFrom(_, _)
FindModsStep(r, p, e) == <<SubSeq(r, p, e - 1)>> \o FindModsFrom(r, e)

FindModsFrom(r, p) ==
    IF p > Len(r) THEN <<>>
    ELSE IF r[p] \in {"+", "-"} /\ p < Len(r) /\ IsDigit(r[p + 1])
         THEN FindModsStep(r, p, DigitsEnd(r, p + 1))
         ELSE FindModsFrom(r, p + 1)

FindMods(r) == FindModsFrom(r, 1)

RECURSIVE SumSeq(_)
SumSeq(xs) == IF xs = <<>> THEN 0 ELSE xs[1] + SumSeq(Tail(xs))

\* the loop that adds every static modifier token into self.static_mod
SumMods(toks) == SumSeq([k \in 1..Len(toks) |-> ParseSigned(toks[k])])

\* mutant: the +N/-N tokens are taken from the whole notation, before the
\* dice groups are removed
StaticModBeforeDice(s) == SumMods(FindMods(s))

StaticMod(s) == SumMods(FindMods(SubDice(s)))

\* a captured string as a one-word value, NoneStr when the group is empty
Word(cs) ==
    IF cs = <<>> THEN NoneStr
    ELSE IF Len(cs) = 1 THEN cs[1]
    ELSE IF Len(cs) = 2 THEN cs[1] \o cs[2]
    ELSE cs[1] \o cs[2] \o cs[3]

\* one entry of self.dice_sets from one match
DiceSet(match) ==
    [count        |-> IF match[1] # <<>> THEN ParseInt(match[1]) ELSE 1,
     sides        |-> IF match[2] = <<"f">> THEN FUDGE ELSE ParseInt(match[2]),
     mod_type     |-> Word(match[3]),
     mod_value    |-> IF match[4] # <<>> THEN ParseInt(match[4]) ELSE None,
     explode_type |-> Word(match[5]),
     target_op    |-> Word(match[6]),
     target_value |-> IF match[7] # <<>> THEN ParseInt(match[7]) ELSE None]

\* DiceRoll._parse_notation: the groups, the static modifier, and whether
\* ValueError was raised because nothing matched
ParsedNeverRaises(dice_matches, static) ==
    [raised |-> FALSE,
     static_mod |-> static,
     dice_sets |-> [k \in 1..Len(dice_matches) |-> DiceSet(dice_matches[k])]]

Parsed(dice_matches, static) ==
    [raised     |-> dice_matches = <<>>,
     static_mod |-> static,
     dice_sets  |-> [k \in 1..Len(dice_matches) |-> DiceSet(dice_matches[k])]]

ParseNotation(s) == Parsed(FindDice(s), StaticMod(s))

\* the text of self.error for the input n
ErrorText(n) ==
    <<"Error parsing dice notation: ", "No valid dice notation found in '">>
        \o n \o <<"'">>

\* ----------------------------------------------- lib/validation.py checks
\* re.search(r'\d+<sep>\d+d', s) for a one-character separator
NumSepNumDAt(s, sep, p, a, b) ==
    /\ a > p
    /\ StartsWith(s, a, <<sep>>)
    /\ b > a + 1
    /\ StartsWith(s, b, <<"d">>)

RECURSIVE SearchNumSepNumD(_, _, _)
SearchNumSepNumD(s, sep, p) ==
    IF p > Len(s) THEN FALSE
    ELSE \/ NumSepNumDAt(s, sep, p, DigitsEnd(s, p),
                         DigitsEnd(s, DigitsEnd(s, p) + 1))
         \/ SearchNumSepNumD(s, sep, p + 1)

\* '0x' in s
RECURSIVE Contains0x(_, _)
Contains0x(s, p) ==
    IF p > Len(s) THEN FALSE
    ELSE StartsWith(s, p, <<"0", "x">>) \/ Contains0x(s, p + 1)

LowerAll(s) == [k \in 1..Len(s) |-> LowerChar(s[k])]

\* validate_dice_notation_chars raises ValidationError on n
validate_dice_notation_chars(n) ==
    \/ SearchNumSepNumD(LowerAll(n), ".", 1)
    \/ Contains0x(LowerAll(n), 1)
    \/ SearchNumSepNumD(LowerAll(n), "e", 1)

\* validate_dice_sides: TRUE when it raises ValidationError
validate_dice_sides(sides) == sides < 1

\* ------------------------------------------------------ pure roll stages
\* mutant: only a missing value becomes 1, a written 0 stays 0
OrOneNotZero(v) == IF v = None THEN 1 ELSE v

\* dice_set['mod_value'] or 1
OrOne(v) == IF v = None \/ v = 0 THEN 1 ELSE v

Min(a, b) == IF a <= b THEN a ELSE b
Max(a, b) == IF a >= b THEN a ELSE b

\* mutant: numeric dice are drawn from 0..sides
FacesFromZero(sides) == IF sides = FUDGE THEN -1..1 ELSE 0..sides

\* mutant: Fudge dice are drawn with random.randint(-2, 2)
FacesFudgeWide(sides) == IF sides = FUDGE THEN -2..2 ELSE 1..sides

\* the faces random.randint can return for a die
Faces(sides) == IF sides = FUDGE THEN -1..1 ELSE 1..sides

\* mutant: the indexed rolls are left in roll order, not sorted
SortedIdxUnsorted(keys, n) == [k \in 1..n |-> k]

\* the indices 1..n in the order sorted(..., key) leaves them: Python's sort
\* is stable, so equal keys stay in index order
RECURSIVE SortedIdx(_, _)
SortedIdx(keys, n) ==
    IF n = 0 THEN <<>>
    ELSE LET prev == SortedIdx(keys, n - 1)
             pos  == Cardinality({j \in 1..Len(prev) : keys[prev[j]] <= keys[n]})
         IN  SubSeq(prev, 1, pos) \o <<n>> \o SubSeq(prev, pos + 1, Len(prev))

\* [v for i, v in indexed if <i selected>]
RECURSIVE PickFrom(_, _, _)
PickFrom(xs, sel, k) ==
    IF k > Len(xs) THEN <<>>
    ELSE (IF k \in sel THEN <<xs[k]>> ELSE <<>>) \o PickFrom(xs, sel, k + 1)

\* mutant: the slice stops one short, sorted(indexed, key)[:mod_value - 1]
SelectedIdxOneShort(xs, mod_type, mod_value) ==
    LET highest == mod_type \in {"kh", "dh"}
        keys    == [k \in 1..Len(xs) |-> IF highest THEN 0 - xs[k] ELSE xs[k]]
        order   == SortedIdx(keys, Len(xs))
    IN  {order[k] : k \in 1..(mod_value - 1)}

\* the index set sorted(indexed, key)[:mod_value] selects
SelectedIdx(xs, mod_type, mod_value) ==
    LET highest == mod_type \in {"kh", "dh"}
        keys    == [k \in 1..Len(xs) |-> IF highest THEN 0 - xs[k] ELSE xs[k]]
        order   == SortedIdx(keys, Len(xs))
    IN  {order[k] : k \in 1..mod_value}

\* mutant: the value is clamped to the group's count, not to len(rolls)
ApplyKeepDropClampsToCount(xs, ds) ==
    LET mod_value == Min(OrOne(ds.mod_value), ds.count)
        sel       == SelectedIdx(xs, ds.mod_type, mod_value)
    IN  IF ds.mod_type \in {"kh", "kl"} THEN PickFrom(xs, sel, 1)
        ELSE PickFrom(xs, (1..Len(xs)) \ sel, 1)

\* mutant: the selected dice are returned in sorted order, the original
\* order is not restored
ApplyKeepDropSorted(xs, ds) ==
    LET mod_value == Min(OrOne(ds.mod_value), Len(xs))
        highest   == ds.mod_type \in {"kh", "dh"}
        keys      == [k \in 1..Len(xs) |-> IF highest THEN 0 - xs[k] ELSE xs[k]]
        order     == SortedIdx(keys, Len(xs))
    IN  IF ds.mod_type \in {"kh", "kl"}
        THEN [k \in 1..mod_value |-> xs[order[k]]]
        ELSE [k \in 1..(Len(xs) - mod_value) |-> xs[order[mod_value + k]]]

\* DiceRoll._apply_keep_drop
ApplyKeepDrop(xs, ds) ==
    LET mod_value == Min(OrOne(ds.mod_value), Len(xs))
        sel       == SelectedIdx(xs, ds.mod_type, mod_value)
    IN  IF ds.mod_type \in {"kh", "kl"} THEN PickFrom(xs, sel, 1)
        ELSE IF ds.mod_type \in {"dh", "dl"}
             THEN PickFrom(xs, (1..Len(xs)) \ sel, 1)
        ELSE xs

\* mutant: `>=` is compared as `>`
SuccessStrict(roll, target_op, target_value) ==
    CASE target_op = ">"  -> roll > target_value
      [] target_op = ">=" -> roll > target_value
      [] target_op = "<"  -> roll < target_value
      [] target_op = "<=" -> roll <= target_value
      [] target_op = "="  -> roll = target_value
      [] OTHER -> FALSE

\* roll op target_value
Success(roll, target_op, target_value) ==
    CASE target_op = ">"  -> roll > target_value
      [] target_op = ">=" -> roll >= target_value
      [] target_op = "<"  -> roll < target_value
      [] target_op = "<=" -> roll <= target_value
      [] target_op = "="  -> roll = target_value
      [] OTHER -> FALSE

\* DiceRoll._count_successes
CountSuccesses(xs, ds) ==
    Cardinality({k \in 1..Len(xs) : Success(xs[k], ds.target_op, ds.target_value)})

\* the keep/drop stage of roll(): keep/drop for kh/kl/dh/dl, a copy otherwise
KeptOf(xs, ds) ==
    IF ds.mod_type \in {"kh", "kl", "dh", "dl"} THEN ApplyKeepDrop(xs, ds) ELSE xs

\* what one group adds to `successes` in roll()
GroupSuccesses(xs, ds) ==
    IF ds.target_op # NoneStr /\ ds.target_value # None
    THEN CountSuccesses(xs, ds) ELSE 0

\* any(ds['target_op'] for ds in self.dice_sets)
AnyTargetOp(sets) == \E k \in 1..Len(sets) : sets[k].target_op # NoneStr

\* mutant: the static modifier is left out of the sum
ResultTotalNoStatic(sets, totals, static, succ) ==
    IF ~AnyTargetOp(sets) THEN SumSeq(totals) ELSE succ

\* the sums of the groups that have no target_op
RECURSIVE OtherSums(_, _, _)
OtherSums(sets, totals, k) ==
    IF k > Len(sets) THEN 0
    ELSE (IF sets[k].target_op = NoneStr THEN totals[k] ELSE 0)
         + OtherSums(sets, totals, k + 1)

\* mutant: in success mode the sums of the groups without a test are added
ResultTotalOthersSummed(sets, totals, static, succ) ==
    IF ~AnyTargetOp(sets) THEN SumSeq(totals) + static
    ELSE succ + OtherSums(sets, totals, 1)

\* mutant: the static modifier is added in success mode too
ResultTotalStaticAlways(sets, totals, static, succ) ==
    (IF ~AnyTargetOp(sets) THEN SumSeq(totals) ELSE succ) + static

\* the 'total' entry of the result of roll()
ResultTotal(sets, totals, static, succ) ==
    IF ~AnyTargetOp(sets) THEN SumSeq(totals) + static ELSE succ

\* ------------------------------------------------------------ formatting
Line(tag, num, list, text) == [tag |-> tag, num |-> num, list |-> list, text |-> text]

RECURSIVE Flatten(_)
Flatten(xss) == IF xss = <<>> THEN <<>> ELSE xss[1] \o Flatten(Tail(xss))

\* DiceRoll._describe_dice_set
DescribeDiceSet(ds) ==
    StrNat(ds.count) \o <<"d">>
    \o (IF ds.sides = FUDGE THEN <<"f">> ELSE StrNat(ds.sides))
    \o (IF ds.mod_type # NoneStr /\ ds.mod_value # None /\ ds.mod_value # 0
        THEN <<ds.mod_type>> \o StrNat(ds.mod_value)
        ELSE IF ds.mod_type # NoneStr THEN <<ds.mod_type>> ELSE <<>>)
    \o (IF ds.explode_type # NoneStr THEN <<ds.explode_type>> ELSE <<>>)
    \o (IF ds.target_op # NoneStr /\ ds.target_value # None
        THEN <<ds.target_op>> \o StrNat(ds.target_value) ELSE <<>>)

RECURSIVE SetLines(_, _, _)
SetLines(sets, res, k) ==
    IF k > Len(sets) THEN <<>>
    ELSE <<Line("Set", k, <<>>, DescribeDiceSet(sets[k])),
           Line("Rolled", 0, res.rolls[k], <<>>)>>
         \o (IF sets[k].mod_type \in {"kh", "kl", "dh", "dl"}
             THEN <<Line("Kept", 0, res.kept[k], <<>>)>> ELSE <<>>)
         \o SetLines(sets, res, k + 1)

\* DiceRoll.format_result once self.result is set: the lines of the string
FormatLines(sets, static, res) ==
    IF Len(sets) = 1 /\ ~AnyTargetOp(sets)
    THEN <<Line("simple", res.total, Flatten(res.kept), <<>>)>>
    ELSE <<Line("Result", res.total, <<>>, <<>>)>>
         \o SetLines(sets, res, 1)
         \o (IF static # 0
             THEN <<Line("Static modifier", static, <<>>,
                         IF static > 0 THEN <<"+">> ELSE <<>>)>>
             ELSE <<>>)

\* ------------------------------------------------------------ the inputs
D(k) == <<DigitChars[k + 1]>>

Counts == {<<>>} \cup {D(k) : k \in 0..MaxCount}
PosCounts == {D(k) : k \in 1..MaxCount}
Sides == {D(k) : k \in 0..MaxSides} \cup {<<"f">>}
PosSides == {D(k) : k \in 1..MaxSides} \cup {<<"f">>}
Vals == {<<>>} \cup {D(k) : k \in 0..MaxValue}
KeepDrops == {<<"k", "h">>, <<"k", "l">>, <<"d", "h">>, <<"d", "l">>}
Rerolls == {<<"r">>, <<"r", "r">>}
Explodes == {<<"!">>, <<"!", "!">>, <<"!", "p">>, <<"!", "!", "p">>}
Ops == {<<">">>, <<">", "=">>, <<"<">>, <<"<", "=">>, <<"=">>}
Statics == {<<>>, <<"+", "2">>, <<"-", "1">>, <<"+", "2", "-", "3">>}

\* NdM and NdM+K
PlainNotations ==
    {c \o <<"d">> \o sd \o st : c \in Counts, sd \in Sides, st \in Statics}

\* the numeric die of the modifier and success-test families: three faces,
\* a highest, a lowest and one between
ModSides == D(3)

\* NdM with keep/drop; two dice with keep/drop and an explode marker
KeepDropNotations ==
    {c \o <<"d">> \o sd \o m \o v :
        c \in PosCounts, sd \in {ModSides, <<"f">>}, m \in KeepDrops,
        v \in Vals}
    \cup {<<"2", "d">> \o sd \o m \o v \o <<"!">> :
        sd \in {D(2), ModSides}, m \in KeepDrops, v \in Vals}

\* NdM with the reroll marker `r`; two dice written with `rr`; two dice with
\* `r` and an explode marker
RerollNotations ==
    {c \o <<"d">> \o sd \o <<"r">> \o v :
        c \in PosCounts, sd \in {ModSides, <<"f">>}, v \in Vals}
    \cup {<<"2", "d">> \o sd \o <<"r", "r">> \o v :
        sd \in {ModSides, <<"f">>}, v \in Vals}
    \cup {<<"2", "d">> \o sd \o <<"r">> \o v \o <<"!">> :
        sd \in {D(2), ModSides}, v \in Vals}

\* NdM with an explode marker
ExplodeNotations ==
    {c \o <<"d">> \o sd \o e :
        c \in {<<>>, D(0), D(2)}, sd \in Sides, e \in Explodes}

\* NdM with a success test: every operator with no value, 0 or 2; and after
\* a keep/drop, `>=2` and `<=2`
SuccessNotations ==
    {c \o <<"d">> \o sd \o o \o v :
        c \in PosCounts, sd \in {ModSides, <<"f">>},
        o \in Ops, v \in {<<>>, D(0), D(2)}}
    \cup {c \o <<"d">> \o sd \o m \o o \o <<"2">> :
        c \in PosCounts, sd \in {ModSides, <<"f">>},
        m \in {<<"k", "h", "1">>, <<"d", "l">>},
        o \in {<<">", "=">>, <<"<", "=">>}}

\* one group with a success test and a static modifier
SuccessStaticNotations ==
    {<<"2", "d">> \o ModSides \o o \o v \o st :
        o \in Ops, v \in {D(1), D(2)}, st \in {<<"+", "2">>, <<"-", "1">>}}

\* two Fudge dice with a reroll or keep/drop, an explode marker and a
\* success test, or without
FudgeNotations ==
    {<<"2", "d", "f">> \o md \o e \o t :
        md \in {<<>>, <<"r">>, <<"r", "0">>, <<"k", "h">>, <<"d", "l", "1">>},
        e \in {<<>>, <<"!">>, <<"!", "!">>, <<"!", "p">>},
        t \in {<<>>, <<">", "=", "0">>}}

\* text no pattern matches, left over after the dice groups
Junk == {<<"x">>, <<"+">>, <<"-">>, <<"k">>, <<"*", "2">>}

\* the groups followed by leftover text
LeftGroups == {<<"2", "d", "2">>, <<"d", "2", "k", "h">>}

\* a group, leftover text, and static modifiers or none
LeftoverNotations ==
    {g \o j \o st : g \in LeftGroups, j \in Junk, st \in Statics}

\* the groups two-group notations are made of
PairGroups ==
    {c \o <<"d", "2">> \o t :
        c \in {<<>>, D(2)},
        t \in {<<>>, <<">", "1">>, <<"<">>, <<"k", "h">>}}
    \cup {<<"d", "f">>, <<"d", "f", ">", "0">>}

\* two groups, a separator, and a static modifier or not
PairNotations ==
    {a \o sep \o b \o st :
        a \in PairGroups, b \in PairGroups,
        sep \in {<<"+">>, <<"-">>}, st \in {<<>>, <<"-", "1">>}}

\* inputs with no dice group, odd number formats, case and blanks
OddNotations ==
    { <<>>, <<"a", "b", "c">>, <<"+", "1">>, <<"2">>, <<"d">>, <<"2", "d">>,
      <<"d", "d", "2">>, <<"2", ".", "5">>, <<"0", "x", "2">>,
      <<"2", ".", "2", "d", "3">>, <<"0", "x", "1", "d", "2">>,
      <<"0", "X", "2", "d", "f">>, <<"1", "e", "2", "d", "3">>,
      <<"1", "E", "1", "d", "2", "+", "1">>,
      <<"2", "D", "3">>, <<"2", "d", "F">>, <<"2", " ", "d", "3", " ", "+", " ", "1">>,
      <<"2", "d", "3", "+", "d", "2", "!", "1">>,
      <<"2", "d", "3", "r", "1", "k", "h", "1">>,
      <<"1", "2", "d", "1">>, <<"2", "d", "1", "0">>,
      <<"0", "d", "3", "k", "h">>, <<"0", "d", "3", "d", "l", "2">> }

\* one group followed by a second modifier or by a suffix out of order
OrderNotations ==
    { <<"3", "d", "3", "r", "1", "k", "h", "2">>,
      <<"3", "d", "3", "!", "k", "h", "2">>,
      <<"3", "d", "3", "k", "h", "2", "r", "1">>,
      <<"3", "d", "3", "k", "h", "2", "d", "l", "1">>,
      <<"2", "d", "3", ">", "1", "!">>,
      <<"2", "d", "3", ">", "2", "k", "h">>,
      <<"2", "d", "3", "!", "r", "2">> }

Notations ==
    PlainNotations \cup KeepDropNotations \cup RerollNotations
    \cup ExplodeNotations \cup SuccessNotations \cup SuccessStaticNotations
    \cup PairNotations \cup FudgeNotations \cup LeftoverNotations
    \cup OrderNotations \cup OddNotations

\* ------------------------------------------------------------- the state
VARIABLES
    pc,                 \* "new", "idle", a point inside roll(), "raised",
                        \* or, once main() is over, "usage" or "exited"
    original_notation,  \* self.original_notation
    notation,           \* self.notation
    dice_sets,          \* self.dice_sets
    static_mod,         \* self.static_mod
    result,             \* self.result: <<>> (None) or <<the result dict>>
    error,              \* self.error: <<>> (None) or the message
    gi,                 \* roll(): index of the dice set being processed
    rolls,              \* roll(): the list of the current dice set
    i,                  \* loop index of the running stage
    val,                \* `value` / `raw_roll` of the exploding loops
    n,                  \* len(rolls) when the exploding stage was entered
    all_rolls, all_kept, all_totals, successes,   \* roll(): accumulators
    caller,             \* "roll", "format_result" or "main": who runs roll()
    ret,                \* what the last call returned
    draws,              \* random.randint calls made so far
    calls,              \* roll() / format_result() calls made so far
    argv,               \* sys.argv[1:] of a command-line run
    exit_status,        \* the exit status of the process, None while it runs
    stdout              \* the lines printed to standard output

fields == <<original_notation, notation, dice_sets, static_mod, error>>
locals == <<gi, rolls, i, val, n, all_rolls, all_kept, all_totals, successes>>
cli == <<argv, exit_status, stdout>>
vars == <<pc, fields, result, locals, caller, ret, draws, calls, cli>>

NoReturn == [kind |-> "none", lines |-> <<>>]

Init ==
    /\ pc = "new"
    /\ original_notation = <<>> /\ notation = <<>>
    /\ dice_sets = <<>> /\ static_mod = 0
    /\ result = <<>> /\ error = <<>>
    /\ gi = 0 /\ rolls = <<>> /\ i = 0 /\ val = 0 /\ n = 0
    /\ all_rolls = <<>> /\ all_kept = <<>> /\ all_totals = <<>>
    /\ successes = 0
    /\ caller = "none" /\ ret = NoReturn
    /\ draws = 0 /\ calls = 0
    /\ argv = <<>> /\ exit_status = None /\ stdout = <<>>

ClearLocals ==
    /\ gi' = 0 /\ rolls' = <<>> /\ i' = 0 /\ val' = 0 /\ n' = 0
    /\ all_rolls' = <<>> /\ all_kept' = <<>> /\ all_totals' = <<>>
    /\ successes' = 0

\* DiceRoll.__init__
SetFields(nt, norm, parsed) ==
    /\ original_notation' = nt
    /\ notation' = norm
    /\ dice_sets' = parsed.dice_sets
    /\ static_mod' = parsed.static_mod
    /\ error' = IF parsed.raised THEN ErrorText(nt) ELSE <<>>

DiceRollInit(nt) ==
    /\ pc = "new"
    /\ SetFields(nt, Normalize(nt), ParseNotation(Normalize(nt)))
    /\ pc' = "idle"
    /\ UNCHANGED <<result, locals, caller, ret, draws, calls>>
    /\ UNCHANGED cli

\* the first lines of roll() once self.error is known to be unset
EnterRoll(who) ==
    /\ caller' = who
    /\ gi' = 1
    /\ all_rolls' = <<>> /\ all_kept' = <<>> /\ all_totals' = <<>>
    /\ successes' = 0
    /\ pc' = IF dice_sets = <<>> THEN "finish" ELSE "roll"
    /\ UNCHANGED <<rolls, i, val, n, ret>>

\* the objects on which roll() is called again after a result is stored
RolledAgain ==
    { <<"d", "2">>, <<"2", "d", "2", "+", "2">>, <<"2", "d", "2", "!">>,
      <<"d", "2", "+", "d", "2">>, <<"2", "d", "2", ">", "1">> }

\* a call of roll(): on an object not rolled yet, as main() makes it, or
\* again on one of the objects of RolledAgain
Roll ==
    /\ pc = "idle" /\ calls < MaxCalls
    /\ (result = <<>> \/ original_notation \in RolledAgain)
    /\ calls' = calls + 1
    /\ IF error # <<>>
       THEN /\ ret' = [kind |-> "error", lines |-> <<Line("error", 0, <<>>, error)>>]
            /\ UNCHANGED <<pc, locals, caller>>
       ELSE EnterRoll("roll")
    /\ UNCHANGED <<fields, result, draws>>
    /\ UNCHANGED cli

\* mutant: format_result() rolls again although a result is stored
FormatResultRollsAgain ==
    /\ pc = "idle" /\ calls < MaxCalls
    /\ calls' = calls + 1
    /\ IF error # <<>>
       THEN /\ ret' = [kind |-> "text", lines |-> <<Line("error", 0, <<>>, error)>>]
            /\ UNCHANGED <<pc, locals, caller>>
       ELSE EnterRoll("format_result")
    /\ UNCHANGED <<fields, result, draws>>
    /\ UNCHANGED cli

\* a call of format_result()
FormatResult ==
    /\ pc = "idle" /\ calls < MaxCalls
    /\ calls' = calls + 1
    /\ IF error # <<>>
       THEN /\ ret' = [kind |-> "text", lines |-> <<Line("error", 0, <<>>, error)>>]
            /\ UNCHANGED <<pc, locals, caller>>
       ELSE IF result = <<>>
       THEN EnterRoll("format_result")
       ELSE /\ ret' = [kind |-> "text",
                       lines |-> FormatLines(dice_sets, static_mod, result[1])]
            /\ UNCHANGED <<pc, locals, caller>>
    /\ UNCHANGED <<fields, result, draws>>
    /\ UNCHANGED cli

\* mutant: the reroll stage is left out, the dice go straight to exploding
AfterRollSkipsReroll(ds) ==
    IF ds.explode_type # NoneStr THEN "explode" ELSE "tail"

\* where roll() goes once the dice of a set are rolled, and once rerolled
AfterReroll(ds) == IF ds.explode_type # NoneStr THEN "explode" ELSE "tail"
AfterRoll(ds) == IF ds.mod_type \in {"r", "rr"} THEN "reroll" ELSE AfterReroll(ds)

\* roll(): the initial dice of set gi; random.randint(1, 0) raises ValueError
RollDice ==
    /\ pc = "roll"
    /\ LET ds == dice_sets[gi]
       IN  IF ds.sides # FUDGE /\ ds.sides < 1 /\ ds.count > 0
           THEN /\ pc' = "raised"
                /\ UNCHANGED <<rolls, i, n, draws>>
           ELSE /\ \E rs \in [1..ds.count -> Faces(ds.sides)] : rolls' = rs
                /\ draws' = draws + ds.count
                /\ i' = 1
                /\ n' = ds.count
                /\ pc' = AfterRoll(ds)
    /\ UNCHANGED <<fields, result, gi, val, all_rolls, all_kept, all_totals,
                   successes, caller, ret, calls>>
    /\ IF caller = "main" /\ dice_sets[gi].sides # FUDGE
          /\ dice_sets[gi].sides < 1 /\ dice_sets[gi].count > 0
       THEN exit_status' = 1 /\ UNCHANGED <<argv, stdout>>
       ELSE UNCHANGED cli

\* mutant: only the dice strictly below mod_value are drawn again
RerollOnceStrict ==
    /\ pc = "reroll"
    /\ LET ds  == dice_sets[gi]
           idx == {k \in 1..Len(rolls) : rolls[k] < OrOne(ds.mod_value)}
       IN  /\ ds.mod_type = "r"
           /\ \E new \in [idx -> Faces(ds.sides)] :
                rolls' = [k \in 1..Len(rolls) |->
                            IF k \in idx THEN new[k] ELSE rolls[k]]
           /\ draws' = draws + Cardinality(idx)
           /\ pc' = AfterReroll(ds)
    /\ UNCHANGED <<fields, result, gi, i, val, n, all_rolls, all_kept,
                   all_totals, successes, caller, ret, calls>>
    /\ UNCHANGED cli

\* _apply_rerolls, 'reroll once': one new draw for every die <= mod_value
RerollOnce ==
    /\ pc = "reroll"
    /\ LET ds  == dice_sets[gi]
           idx == {k \in 1..Len(rolls) : rolls[k] <= OrOne(ds.mod_value)}
       IN  /\ ds.mod_type = "r"
           /\ \E new \in [idx -> Faces(ds.sides)] :
                rolls' = [k \in 1..Len(rolls) |->
                            IF k \in idx THEN new[k] ELSE rolls[k]]
           /\ draws' = draws + Cardinality(idx)
           /\ pc' = AfterReroll(ds)
    /\ UNCHANGED <<fields, result, gi, i, val, n, all_rolls, all_kept,
                   all_totals, successes, caller, ret, calls>>
    /\ UNCHANGED cli

\* _apply_rerolls, 'reroll always': one pass of `while val <= mod_value`
RerollAlwaysDraw ==
    /\ pc = "reroll"
    /\ LET ds == dice_sets[gi]
       IN  /\ ds.mod_type = "rr"
           /\ i <= Len(rolls)
           /\ rolls[i] <= OrOne(ds.mod_value)
           /\ \E v \in Faces(ds.sides) : rolls' = [rolls EXCEPT ![i] = v]
    /\ draws < MaxRedraws
    /\ draws' = draws + 1
    /\ UNCHANGED <<pc, fields, result, gi, i, val, n, all_rolls, all_kept,
                   all_totals, successes, caller, ret, calls>>
    /\ UNCHANGED cli

\* mutant: a die equal to mod_value is accepted too
RerollAlwaysNextAtValue ==
    /\ pc = "reroll"
    /\ LET ds == dice_sets[gi]
       IN  /\ ds.mod_type = "rr"
           /\ i <= Len(rolls)
           /\ rolls[i] >= OrOne(ds.mod_value)
    /\ i' = i + 1
    /\ UNCHANGED <<pc, fields, result, gi, rolls, val, n, all_rolls, all_kept,
                   all_totals, successes, caller, ret, draws, calls>>
    /\ UNCHANGED cli

\* 'reroll always': the die is above mod_value, on to the next one
RerollAlwaysNext ==
    /\ pc = "reroll"
    /\ LET ds == dice_sets[gi]
       IN  /\ ds.mod_type = "rr"
           /\ i <= Len(rolls)
           /\ rolls[i] > OrOne(ds.mod_value)
    /\ i' = i + 1
    /\ UNCHANGED <<pc, fields, result, gi, rolls, val, n, all_rolls, all_kept,
                   all_totals, successes, caller, ret, draws, calls>>
    /\ UNCHANGED cli

\* 'reroll always': the for loop is over
RerollAlwaysDone ==
    /\ pc = "reroll"
    /\ dice_sets[gi].mod_type = "rr"
    /\ i > Len(rolls)
    /\ i' = 1
    /\ pc' = AfterReroll(dice_sets[gi])
    /\ UNCHANGED <<fields, result, gi, rolls, val, n, all_rolls, all_kept,
                   all_totals, successes, caller, ret, draws, calls>>
    /\ UNCHANGED cli

\* _apply_exploding returns the list untouched: Fudge dice, or a marker that
\* is none of '!', '!!', '!p' (the pattern also accepts '!!p')
ExplodeSkip ==
    /\ pc = "explode"
    /\ LET ds == dice_sets[gi]
       IN  ds.sides = FUDGE \/ ds.explode_type \notin {"!", "!!", "!p"}
    /\ pc' = "tail"
    /\ UNCHANGED <<fields, result, locals, caller, ret, draws, calls>>
    /\ UNCHANGED cli

\* mutant: only the original dice are tested against the maximum, a die
\* appended by an explosion never explodes
ExplodeNormalNoChain ==
    /\ pc = "explode"
    /\ LET ds == dice_sets[gi]
       IN  /\ ds.sides # FUDGE /\ ds.explode_type = "!"
           /\ i <= Len(rolls)
           /\ IF i <= n /\ rolls[i] = ds.sides
              THEN /\ Len(rolls) - n < MaxExtra
                   /\ \E new_roll \in Faces(ds.sides) :
                        rolls' = Append(rolls, new_roll)
                   /\ draws' = draws + 1
              ELSE UNCHANGED <<rolls, draws>>
    /\ i' = i + 1
    /\ UNCHANGED <<pc, fields, result, gi, val, n, all_rolls, all_kept,
                   all_totals, successes, caller, ret, calls>>
    /\ UNCHANGED cli

\* '!': one pass of `while i < len(result)`; a die at the maximum appends a
\* new die, which the scan reaches later
ExplodeNormal ==
    /\ pc = "explode"
    /\ LET ds == dice_sets[gi]
       IN  /\ ds.sides # FUDGE /\ ds.explode_type = "!"
           /\ i <= Len(rolls)
           /\ IF rolls[i] = ds.sides
              THEN /\ Len(rolls) - n < MaxExtra
                   /\ \E new_roll \in Faces(ds.sides) :
                        rolls' = Append(rolls, new_roll)
                   /\ draws' = draws + 1
              ELSE UNCHANGED <<rolls, draws>>
    /\ i' = i + 1
    /\ UNCHANGED <<pc, fields, result, gi, val, n, all_rolls, all_kept,
                   all_totals, successes, caller, ret, calls>>
    /\ UNCHANGED cli

\* '!!': `value = rolls[i]` for the next original die
ExplodeCompound ==
    /\ pc = "explode"
    /\ LET ds == dice_sets[gi]
       IN  /\ ds.sides # FUDGE /\ ds.explode_type = "!!"
           /\ i <= n
    /\ val' = rolls[i]
    /\ pc' = "compound"
    /\ UNCHANGED <<fields, result, gi, rolls, i, n, all_rolls, all_kept,
                   all_totals, successes, caller, ret, draws, calls>>
    /\ UNCHANGED cli

\* '!!': one pass of `while value == sides`
CompoundDraw ==
    /\ pc = "compound"
    /\ val = dice_sets[gi].sides
    /\ \E extra \in Faces(dice_sets[gi].sides) : val' = val + extra
    /\ draws' = draws + 1
    /\ UNCHANGED <<pc, fields, result, gi, rolls, i, n, all_rolls, all_kept,
                   all_totals, successes, caller, ret, calls>>
    /\ UNCHANGED cli

\* mutant: what an exploded die gained is appended as a new entry
CompoundStoreAppends ==
    /\ pc = "compound"
    /\ val # dice_sets[gi].sides
    /\ rolls' = IF val = rolls[i] THEN rolls ELSE Append(rolls, val - rolls[i])
    /\ i' = i + 1
    /\ val' = 0
    /\ pc' = "explode"
    /\ UNCHANGED <<fields, result, gi, n, all_rolls, all_kept, all_totals,
                   successes, caller, ret, draws, calls>>
    /\ UNCHANGED cli

\* '!!': `result[i] = value`
CompoundStore ==
    /\ pc = "compound"
    /\ val # dice_sets[gi].sides
    /\ rolls' = [rolls EXCEPT ![i] = val]
    /\ i' = i + 1
    /\ val' = 0
    /\ pc' = "explode"
    /\ UNCHANGED <<fields, result, gi, n, all_rolls, all_kept, all_totals,
                   successes, caller, ret, draws, calls>>
    /\ UNCHANGED cli

\* '!p': the next original die; at the maximum it draws raw_roll
ExplodePenetrating ==
    /\ pc = "explode"
    /\ LET ds == dice_sets[gi]
       IN  /\ ds.sides # FUDGE /\ ds.explode_type = "!p"
           /\ i <= n
           /\ IF rolls[i] = ds.sides
              THEN /\ \E raw_roll \in Faces(ds.sides) : val' = raw_roll
                   /\ draws' = draws + 1
                   /\ pc' = "penetrate"
                   /\ UNCHANGED i
              ELSE /\ i' = i + 1
                   /\ UNCHANGED <<pc, val, draws>>
    /\ UNCHANGED <<fields, result, gi, rolls, n, all_rolls, all_kept,
                   all_totals, successes, caller, ret, calls>>
    /\ UNCHANGED cli

\* '!p': one pass of `while raw_roll == sides`
PenetrateAgain ==
    /\ pc = "penetrate"
    /\ val = dice_sets[gi].sides
    /\ Len(rolls) - n < MaxExtra
    /\ rolls' = Append(rolls, Max(1, val - 1))
    /\ \E raw_roll \in Faces(dice_sets[gi].sides) : val' = raw_roll
    /\ draws' = draws + 1
    /\ UNCHANGED <<pc, fields, result, gi, i, n, all_rolls, all_kept,
                   all_totals, successes, caller, ret, calls>>
    /\ UNCHANGED cli

\* mutant: the final roll is stored as drawn, without the penalty
PenetrateLastRaw ==
    /\ pc = "penetrate"
    /\ val # dice_sets[gi].sides
    /\ rolls' = Append(rolls, val)
    /\ i' = i + 1
    /\ val' = 0
    /\ pc' = "explode"
    /\ UNCHANGED <<fields, result, gi, n, all_rolls, all_kept, all_totals,
                   successes, caller, ret, draws, calls>>
    /\ UNCHANGED cli

\* '!p': the final, non-exploding roll is stored
PenetrateLast ==
    /\ pc = "penetrate"
    /\ val # dice_sets[gi].sides
    /\ rolls' = Append(rolls, Max(1, val - 1))
    /\ i' = i + 1
    /\ val' = 0
    /\ pc' = "explode"
    /\ UNCHANGED <<fields, result, gi, n, all_rolls, all_kept, all_totals,
                   successes, caller, ret, draws, calls>>
    /\ UNCHANGED cli

\* the loop of '!', '!!' or '!p' is over
ExplodeDone ==
    /\ pc = "explode"
    /\ LET ds == dice_sets[gi]
       IN  /\ ds.sides # FUDGE
           /\ \/ ds.explode_type = "!" /\ i > Len(rolls)
              \/ ds.explode_type \in {"!!", "!p"} /\ i > n
    /\ pc' = "tail"
    /\ UNCHANGED <<fields, result, locals, caller, ret, draws, calls>>
    /\ UNCHANGED cli

\* roll(): keep/drop, success count and the three appends for set gi
GroupDone ==
    /\ pc = "tail"
    /\ LET ds   == dice_sets[gi]
           kept == KeptOf(rolls, ds)
       IN  /\ successes' = successes + GroupSuccesses(kept, ds)
           /\ all_rolls' = Append(all_rolls, rolls)
           /\ all_kept' = Append(all_kept, kept)
           /\ all_totals' = Append(all_totals, SumSeq(kept))
    /\ IF gi < Len(dice_sets)
       THEN gi' = gi + 1 /\ pc' = "roll"
       ELSE gi' = gi /\ pc' = "finish"
    /\ rolls' = <<>> /\ i' = 0 /\ n' = 0
    /\ UNCHANGED <<fields, result, val, caller, ret, draws, calls>>
    /\ UNCHANGED cli

\* roll(): the total, self.result and the return; format_result() goes on
\* to format the result it has just rolled, and main() to print it
\* formatted and to end
Finish ==
    /\ pc = "finish"
    /\ LET res == [total |-> ResultTotal(dice_sets, all_totals, static_mod, successes),
                   rolls |-> all_rolls,
                   kept  |-> all_kept]
       IN  /\ result' = <<res>>
           /\ ret' = IF caller = "format_result"
                     THEN [kind |-> "text",
                           lines |-> FormatLines(dice_sets, static_mod, res)]
                     ELSE [kind |-> "result", lines |-> <<>>]
    /\ ClearLocals
    /\ IF caller = "main"
       THEN /\ stdout' = FormatLines(dice_sets, static_mod,
                     [total |-> ResultTotal(dice_sets, all_totals, static_mod, successes),
                      rolls |-> all_rolls,
                      kept  |-> all_kept])
            /\ exit_status' = 0
            /\ pc' = "exited"
            /\ UNCHANGED argv
       ELSE pc' = "idle" /\ UNCHANGED cli
    /\ UNCHANGED <<fields, caller, draws, calls>>

\* the arguments main() answers with the usage text
HelpFlags == {<<"-", "-", "h", "e", "l", "p">>, <<"-", "h">>}

\* len(sys.argv) != 2 or sys.argv[1] in ('--help', '-h')
WantsUsage(args) == IF Len(args) # 1 THEN TRUE ELSE args[1] \in HelpFlags

\* sys.argv[1] is a help flag
IsHelp(args) == IF Len(args) >= 1 THEN args[1] \in HelpFlags ELSE FALSE

\* main(): not exactly one argument, or a help flag: the usage text
MainUsage(args) ==
    /\ pc = "new"
    /\ WantsUsage(args)
    /\ argv' = args
    /\ stdout' = <<Line("usage", 0, <<>>, <<>>)>>
    /\ exit_status' = IF IsHelp(args) THEN 0 ELSE 1
    /\ pc' = "usage"
    /\ UNCHANGED <<fields, result, locals, caller, ret, draws, calls>>

\* main() with one notation: DiceRoll(notation), then the error is printed
\* and the status is 1, or roll() is entered
Main(args) ==
    /\ pc = "new"
    /\ ~WantsUsage(args)
    /\ argv' = args
    /\ SetFields(args[1], Normalize(args[1]), ParseNotation(Normalize(args[1])))
    /\ IF ParseNotation(Normalize(args[1])).raised
       THEN /\ stdout' = <<Line("error", 0, <<>>, ErrorText(args[1]))>>
            /\ exit_status' = 1
            /\ pc' = "exited"
            /\ UNCHANGED <<caller, gi>>
       ELSE /\ caller' = "main"
            /\ gi' = 1
            /\ pc' = "roll"
            /\ UNCHANGED <<stdout, exit_status>>
    /\ UNCHANGED <<result, rolls, i, val, n, all_rolls, all_kept, all_totals,
                   successes, ret, draws, calls>>

\* the argument lists that are not one notation
UsageArgs ==
    {<<>>, <<<<"-", "h">>>>, <<<<"-", "-", "h", "e", "l", "p">>>>,
     <<<<"2", "d", "3">>, <<"+", "2">>>>, <<<<"-", "h">>, <<"2", "d", "3">>>>,
     <<<<"2", "d", "3">>, <<"-", "h">>>>}

\* single arguments given on the command line
CliNotations ==
    PlainNotations \cup SuccessStaticNotations \cup LeftoverNotations
    \cup OddNotations
    \cup { <<"d", "1", "!">>, <<"2", "d", "2", "!">>, <<"d", "2", "+", "d", "2">>,
           <<"2", "d", "2", "k", "h", "-", "d", "f", ">", "0", "-", "1">>,
           <<"3", "d", "3", "=">>, <<"2", "d", "f", "r">> }

Next ==
    \/ \E nt \in Notations : DiceRollInit(nt)
    \/ \E args \in UsageArgs : MainUsage(args)
    \/ \E nt \in CliNotations : Main(<<nt>>)
    \/ Roll
    \/ FormatResult
    \/ RollDice
    \/ RerollOnce
    \/ ExplodeSkip
    \/ ExplodeNormal
    \/ ExplodeCompound
    \/ CompoundDraw
    \/ CompoundStore
    \/ ExplodePenetrating
    \/ PenetrateAgain
    \/ PenetrateLast
    \/ ExplodeDone
    \/ GroupDone
    \/ Finish

Spec == Init /\ [][Next]_vars

\* the dice sets a direct call of _apply_rerolls is given in 'reroll always'
\* mode: numeric or Fudge dice, any threshold or none
AlwaysSets ==
    {[count |-> 0, sides |-> sd, mod_type |-> "rr", mod_value |-> v,
      explode_type |-> NoneStr, target_op |-> NoneStr, target_value |-> None] :
        sd \in (1..MaxSides) \cup {FUDGE}, v \in {None} \cup (0..MaxValue)}

\* the roll lists such a call is given: up to MaxCount faces of the die
RollLists(sides) ==
    UNION {[1..len -> Faces(sides)] : len \in 0..MaxCount}

\* _apply_rerolls(rolls, dice_set) called with mod_type 'rr', at its for loop
InitAlways ==
    /\ pc = "reroll"
    /\ original_notation = <<>> /\ notation = <<>>
    /\ \E ds \in AlwaysSets : \E rs \in RollLists(ds.sides) :
          /\ dice_sets = <<[ds EXCEPT !.count = Len(rs)]>>
          /\ rolls = rs /\ n = Len(rs)
    /\ static_mod = 0
    /\ result = <<>> /\ error = <<>>
    /\ gi = 1 /\ i = 1 /\ val = 0
    /\ all_rolls = <<>> /\ all_kept = <<>> /\ all_totals = <<>>
    /\ successes = 0
    /\ caller = "none" /\ ret = NoReturn
    /\ draws = 0 /\ calls = 0
    /\ argv = <<>> /\ exit_status = None /\ stdout = <<>>

NextAlways ==
    \/ RerollAlwaysDraw
    \/ RerollAlwaysNext
    \/ RerollAlwaysDone

SpecAlways == InitAlways /\ [][NextAlways]_vars

\* ================================================================ claims
\* the result dict of the last roll(), once there is one
Rolled == pc = "idle" /\ result # <<>>

\* sum over the groups of the sum of each group's kept rolls
KeptSum(res) == SumSeq([k \in 1..Len(res.kept) |-> SumSeq(res.kept[k])])

\* the same sum taken over the groups in the opposite order
KeptSumReversed(res) ==
    SumSeq([k \in 1..Len(res.kept) |-> SumSeq(res.kept[Len(res.kept) + 1 - k])])

\* C1: when no group carries a success-test operator, the total of roll() is
\* the sum over all groups of the group's kept rolls plus the static
\* modifier, whatever the order the groups are summed in; for `2d3+2` it is
\* the two values rolled plus 2.
C1_SumModeTotal ==
    (Rolled /\ ~AnyTargetOp(dice_sets)) =>
        /\ result[1].total = KeptSum(result[1]) + static_mod
        /\ result[1].total = KeptSumReversed(result[1]) + static_mod
        /\ original_notation = <<"2", "d", "3", "+", "2">> =>
              result[1].total = result[1].rolls[1][1] + result[1].rolls[1][2] + 2

C1_Witness ==
    /\ Rolled /\ ~AnyTargetOp(dice_sets)
    /\ Len(dice_sets) = 2 /\ static_mod = -1
    /\ result[1].kept = << <<2, 1>>, <<-1>> >>
    /\ result[1].total = 1

\* a group NdM with numeric sides and no modifier of any kind
IsPlain(ds) ==
    /\ ds.sides # FUDGE
    /\ ds.mod_type = NoneStr /\ ds.explode_type = NoneStr
    /\ ds.target_op = NoneStr

\* C2: for every group NdM with numeric sides and no modifiers, roll() gives a
\* raw list of exactly N values, each in [1, M], the kept list is the raw
\* list, and for such an expression total = sum(rolls) + static_modifier.
C2_PlainGroup ==
    Rolled =>
        /\ \A k \in 1..Len(dice_sets) :
              IsPlain(dice_sets[k]) =>
                  /\ Len(result[1].rolls[k]) = dice_sets[k].count
                  /\ \A j \in 1..Len(result[1].rolls[k]) :
                        /\ result[1].rolls[k][j] >= 1
                        /\ result[1].rolls[k][j] <= dice_sets[k].sides
                  /\ result[1].kept[k] = result[1].rolls[k]
        /\ (\A k \in 1..Len(dice_sets) : IsPlain(dice_sets[k])) =>
              result[1].total = SumSeq(Flatten(result[1].rolls)) + static_mod

C2_Witness ==
    /\ Rolled
    /\ Len(dice_sets) = 1 /\ IsPlain(dice_sets[1])
    /\ dice_sets[1].count = 3 /\ dice_sets[1].sides = 3
    /\ static_mod = 2
    /\ result[1].rolls = << <<3, 1, 2>> >>
    /\ result[1].total = 8

\* C3: a DiceRoll constructed from a notation with a float before `d`, a hex
\* literal or scientific notation before `d` is in the parse-error state:
\* error set, no group parsed, nothing rolled, no random number drawn.
C3_RejectsNonIntegerCounts ==
    (pc # "new" /\ validate_dice_notation_chars(original_notation)) =>
        /\ error # <<>>
        /\ dice_sets = <<>>
        /\ result = <<>> /\ draws = 0

\* a DiceRoll object has been constructed
Constructed == pc \notin {"new", "usage"}

\* some `d` of the normalized notation is followed by a digit or by `f`
HasDiceToken(s) ==
    \E p \in 1..(Len(s) - 1) :
        s[p] = "d" /\ (IsDigit(s[p + 1]) \/ s[p + 1] = "f")

IsKeepDrop(ds) == ds.mod_type \in {"kh", "kl", "dh", "dl"}
IsKeep(ds) == ds.mod_type \in {"kh", "kl"}

\* the value V of a keep/drop modifier: the number written, 1 when omitted
ModV(ds) == IF ds.mod_value = None THEN 1 ELSE ds.mod_value

\* C5 as stated: for every group of N dice with a kh/kl/dh/dl modifier of
\* value V, 1 <= V <= N, the kept list has exactly V elements for keep and
\* exactly N - V elements for drop.
C5_KeptLengthOfCount ==
    Rolled =>
        \A k \in 1..Len(dice_sets) :
            (/\ IsKeepDrop(dice_sets[k])
             /\ 1 <= ModV(dice_sets[k])
             /\ ModV(dice_sets[k]) <= dice_sets[k].count) =>
                Len(result[1].kept[k]) =
                    IF IsKeep(dice_sets[k]) THEN ModV(dice_sets[k])
                    ELSE dice_sets[k].count - ModV(dice_sets[k])

\* C5 amended: for every group of N dice with a kh/kl/dh/dl modifier of
\* value V, 1 <= V <= N, the kept list has exactly V elements for keep and
\* exactly len(raw rolls) - V elements for drop; the raw list has N elements
\* when the group has no explode marker and at least N otherwise.
C5_KeptLengthOfRaw ==
    Rolled =>
        \A k \in 1..Len(dice_sets) :
            (/\ IsKeepDrop(dice_sets[k])
             /\ 1 <= ModV(dice_sets[k])
             /\ ModV(dice_sets[k]) <= dice_sets[k].count) =>
                /\ Len(result[1].kept[k]) =
                      IF IsKeep(dice_sets[k]) THEN ModV(dice_sets[k])
                      ELSE Len(result[1].rolls[k]) - ModV(dice_sets[k])
                /\ Len(result[1].rolls[k]) >= dice_sets[k].count
                /\ dice_sets[k].explode_type = NoneStr =>
                      Len(result[1].rolls[k]) = dice_sets[k].count

C5_Witness ==
    /\ Rolled /\ Len(dice_sets) = 1
    /\ dice_sets[1].mod_type = "dl" /\ dice_sets[1].mod_value = 1
    /\ dice_sets[1].count = 2 /\ dice_sets[1].explode_type = "!"
    /\ result[1].rolls = << <<2, 1, 2, 1>> >>
    /\ result[1].kept = << <<2, 2, 1>> >>

\* the elements of xs at the positions S, in increasing position
AtPositions(xs, S) ==
    [j \in 1..Cardinality(S) |->
        xs[CHOOSE q \in S : Cardinality({r \in S : r <= q}) = j]]

\* position a is taken before position b when the highest (lowest) are
\* selected: by value, and by position among equal values
TakenBefore(xs, highest, a, b) ==
    \/ (IF highest THEN xs[a] > xs[b] ELSE xs[a] < xs[b])
    \/ (xs[a] = xs[b] /\ a < b)

\* the v positions of xs that hold its highest (lowest) values
Extreme(xs, highest, v) ==
    CHOOSE S \in SUBSET (1..Len(xs)) :
        /\ Cardinality(S) = v
        /\ \A a \in S : \A b \in (1..Len(xs)) \ S : TakenBefore(xs, highest, a, b)

\* the number of dice a keep/drop modifier selects from a raw list
Selects(xs, ds) == Min(IF ModV(ds) = 0 THEN 1 ELSE ModV(ds), Len(xs))

\* C6: for kh every kept value is >= every discarded value, for kl every
\* kept value is <= every discarded value, and dh and dl retain exactly the
\* complement, by position, of what kh and kl with the same value keep.
C6_KeepsExtremes ==
    Rolled =>
        \A k \in 1..Len(dice_sets) :
            IsKeepDrop(dice_sets[k]) =>
                LET raw  == result[1].rolls[k]
                    high == dice_sets[k].mod_type \in {"kh", "dh"}
                    S    == Extreme(raw, high, Selects(raw, dice_sets[k]))
                    rest == (1..Len(raw)) \ S
                IN  /\ IsKeep(dice_sets[k]) =>
                          /\ result[1].kept[k] = AtPositions(raw, S)
                          /\ \A a \in S : \A b \in rest :
                                IF high THEN raw[a] >= raw[b]
                                ELSE raw[a] <= raw[b]
                    /\ ~IsKeep(dice_sets[k]) =>
                          result[1].kept[k] = AtPositions(raw, rest)

C6_Witness ==
    /\ Rolled /\ Len(dice_sets) = 1
    /\ dice_sets[1].mod_type = "dh" /\ dice_sets[1].mod_value = 2
    /\ result[1].rolls = << <<3, 1, 3>> >>
    /\ result[1].kept = << <<1>> >>

\* C7: for every keep/drop modifier and every roll list the kept list is a
\* subsequence of the raw roll list: the kept dice are the values at some
\* positions of the raw list, in the order of those positions.
C7_KeptIsSubsequence ==
    Rolled =>
        \A k \in 1..Len(dice_sets) :
            IsKeepDrop(dice_sets[k]) =>
                \E S \in SUBSET (1..Len(result[1].rolls[k])) :
                    result[1].kept[k] = AtPositions(result[1].rolls[k], S)

C7_Witness ==
    /\ Rolled /\ Len(dice_sets) = 1
    /\ dice_sets[1].mod_type = "kh" /\ dice_sets[1].mod_value = 2
    /\ result[1].rolls = << <<2, 1, 3>> >>
    /\ result[1].kept = << <<2, 3>> >>

\* a group with a success test `op value`
HasTest(ds) == ds.target_op # NoneStr /\ ds.target_value # None

\* r op v, for the five operators
Passes(r, op, v) ==
    \/ op = ">" /\ r - v > 0
    \/ op = ">=" /\ r - v >= 0
    \/ op = "<" /\ v - r > 0
    \/ op = "<=" /\ v - r >= 0
    \/ op = "=" /\ r - v = 0

\* the number of values in xs that pass the test of ds
PassCount(xs, ds) ==
    Cardinality({j \in 1..Len(xs) : Passes(xs[j], ds.target_op, ds.target_value)})

\* C8: for an expression of one group with a success test `op value`, total
\* is exactly the number of kept rolls r for which `r op value` holds, for
\* each of the five operators, so it lies between 0 and the number of dice
\* kept; dice removed by keep/drop are not counted.
C8_SuccessCount ==
    (Rolled /\ Len(dice_sets) = 1 /\ HasTest(dice_sets[1])) =>
        /\ result[1].total = PassCount(result[1].kept[1], dice_sets[1])
        /\ result[1].total >= 0
        /\ result[1].total <= Len(result[1].kept[1])
        /\ Len(result[1].kept[1]) <= Len(result[1].rolls[1])

C8_Witness ==
    /\ Rolled /\ Len(dice_sets) = 1
    /\ dice_sets[1].mod_type = "dl"
    /\ dice_sets[1].target_op = "<=" /\ dice_sets[1].target_value = 2
    /\ result[1].rolls = << <<1, 3, 2>> >>
    /\ result[1].kept = << <<3, 2>> >>
    /\ result[1].total = 1

\* what group k adds to a total in which every group counts: its success
\* count when it has a test, the sum of its kept rolls when it has none
CountOrSum(res, k) ==
    IF dice_sets[k].target_op # NoneStr
    THEN (IF HasTest(dice_sets[k]) THEN PassCount(res.kept[k], dice_sets[k]) ELSE 0)
    ELSE SumSeq(res.kept[k])

\* what group k adds to a success count: its success count, 0 without a test
CountOnly(res, k) ==
    IF HasTest(dice_sets[k]) THEN PassCount(res.kept[k], dice_sets[k]) ELSE 0

\* at least one group has a success test
AnyTest(sets) == \E k \in 1..Len(sets) : HasTest(sets[k])

\* C9 as stated: if at least one group has a success test, the total is a
\* success count into which the sums of the groups without a success test
\* are summed alongside the success counts.
C9_OthersSummedIn ==
    (Rolled /\ AnyTest(dice_sets)) =>
        result[1].total =
            SumSeq([k \in 1..Len(dice_sets) |-> CountOrSum(result[1], k)])

\* C9 amended: if at least one group has a success test, the total is the
\* sum of the success counts of the groups that have a test; the groups
\* without a test are rolled and listed, and their sums are not in the total.
C9_SuccessCountsOnly ==
    (Rolled /\ AnyTest(dice_sets)) =>
        /\ result[1].total =
              SumSeq([k \in 1..Len(dice_sets) |-> CountOnly(result[1], k)])
        /\ Len(result[1].rolls) = Len(dice_sets)
        /\ Len(result[1].kept) = Len(dice_sets)

C9_Witness ==
    /\ Rolled /\ Len(dice_sets) = 2 /\ static_mod = 0
    /\ dice_sets[1].target_op = ">" /\ dice_sets[2].target_op = NoneStr
    /\ result[1].kept = << <<2, 1>>, <<2, 2>> >>
    /\ result[1].total = 1

\* the sum over the groups of their success counts in success mode, of the
\* sums of their kept rolls in sum mode
ModeSum(res) ==
    IF AnyTargetOp(dice_sets)
    THEN SumSeq([k \in 1..Len(dice_sets) |-> CountOnly(res, k)])
    ELSE SumSeq([k \in 1..Len(dice_sets) |-> SumSeq(res.kept[k])])

\* C10 as stated: in sum mode and in success-count mode alike, total is the
\* sum across groups of totals or successes plus the static modifier.
C10_StaticInBothModes ==
    Rolled => result[1].total = ModeSum(result[1]) + static_mod

\* C10 amended: the static modifier is part of the total in sum mode only;
\* in success-count mode total is the sum across groups of successes and
\* the static modifier is not added.
C10_StaticInSumModeOnly ==
    Rolled =>
        result[1].total =
            ModeSum(result[1]) + (IF AnyTargetOp(dice_sets) THEN 0 ELSE static_mod)

C10_Witness ==
    /\ Rolled /\ Len(dice_sets) = 1 /\ static_mod = 2
    /\ dice_sets[1].target_op = ">=" /\ dice_sets[1].target_value = 2
    /\ result[1].kept = << <<3, 1>> >>
    /\ result[1].total = 1

\* the value a written integer stands for, None when nothing is written
Written(v) == IF v = <<>> THEN None ELSE ParseInt(v)

\* C11: a group written with the `rr` marker, with or without an integer, is
\* parsed as one group with mod_type 'rr' and that threshold; nothing of the
\* `rr[N]` suffix is left outside the group token.
C11_RerollAlwaysParsed ==
    pc # "new" =>
        \A c \in PosCounts : \A sd \in PosSides : \A v \in Vals :
            original_notation = c \o <<"d">> \o sd \o <<"r", "r">> \o v =>
                /\ error = <<>> /\ Len(dice_sets) = 1
                /\ dice_sets[1].mod_type = "rr"
                /\ dice_sets[1].mod_value = Written(v)
                /\ SubDice(notation) = <<>>

\* C12: roll() terminates when no group uses 'reroll always'; so whenever an
\* exploding loop has found a die at the maximum and draws again, the random
\* source can return a face that is not the maximum and lets the loop end.
C12_ExplodingCanEnd ==
    (/\ pc \in {"explode", "penetrate"}
     /\ dice_sets[gi].sides # FUDGE
     /\ \/ pc = "explode" /\ dice_sets[gi].explode_type = "!"
                          /\ i <= Len(rolls) /\ rolls[i] = dice_sets[gi].sides
        \/ pc = "penetrate" /\ val = dice_sets[gi].sides) =>
        \E face \in Faces(dice_sets[gi].sides) : face # dice_sets[gi].sides

\* _apply_exploding is running the '!' loop on the numeric dice of set gi
InNormalExplode ==
    /\ pc = "explode"
    /\ dice_sets[gi].explode_type = "!" /\ dice_sets[gi].sides # FUDGE

\* the number of entries of xs equal to v
CountOf(xs, v) == Cardinality({j \in 1..Len(xs) : xs[j] = v})

\* C13: for normal exploding (`!`) on numeric sides every die at the maximum
\* face, original or appended, triggers exactly one appended die: no step of
\* the loop changes the first N entries, and when _apply_exploding returns
\* len(raw) - N is the number of entries equal to `sides` and every entry is
\* in [1, sides].
C13_NormalExplode ==
    [][InNormalExplode =>
        /\ Len(rolls') >= Len(rolls)
        /\ SubSeq(rolls', 1, Len(rolls)) = rolls
        /\ pc' = "tail" =>
              /\ Len(rolls') - dice_sets[gi].count =
                    CountOf(rolls', dice_sets[gi].sides)
              /\ \A j \in 1..Len(rolls') :
                    rolls'[j] >= 1 /\ rolls'[j] <= dice_sets[gi].sides]_vars

C13_Witness ==
    /\ pc = "tail" /\ Len(dice_sets) = 1
    /\ dice_sets[1].count = 2 /\ dice_sets[1].sides = 2
    /\ dice_sets[1].explode_type = "!" /\ dice_sets[1].mod_type = NoneStr
    /\ rolls = <<2, 1, 2, 1>> /\ draws = 4

\* C14: for a Fudge group NdF with any combination of reroll, explode marker,
\* keep/drop and success test, the raw list has exactly N values and every
\* raw and kept value is in {-1, 0, 1}.
C14_FudgeDomain ==
    Rolled =>
        \A k \in 1..Len(dice_sets) :
            dice_sets[k].sides = FUDGE =>
                /\ Len(result[1].rolls[k]) = dice_sets[k].count
                /\ \A j \in 1..Len(result[1].rolls[k]) :
                      result[1].rolls[k][j] \in {-1, 0, 1}
                /\ \A j \in 1..Len(result[1].kept[k]) :
                      result[1].kept[k][j] \in {-1, 0, 1}

C14_Witness ==
    /\ Rolled /\ Len(dice_sets) = 1
    /\ dice_sets[1].sides = FUDGE /\ dice_sets[1].count = 2
    /\ dice_sets[1].mod_type = "r" /\ dice_sets[1].explode_type = "!"
    /\ dice_sets[1].target_op = ">="
    /\ draws = 4
    /\ result[1].rolls = << <<1, -1>> >> /\ result[1].total = 1

\* C15: every group of a successfully parsed expression has count >= 1 and
\* sides >= 1 or Fudge sides, so no group with a zero count or zero sides
\* reaches the roller and the roller never fails on one.
C15_PositiveCountAndSides ==
    (pc # "new" /\ error = <<>>) =>
        /\ \A k \in 1..Len(dice_sets) :
              /\ dice_sets[k].count >= 1
              /\ dice_sets[k].sides # FUDGE =>
                    ~validate_dice_sides(dice_sets[k].sides)
        /\ pc # "raised"

\* the signed sum a string of +N/-N tokens stands for
StaticValue(st) ==
    CASE st = <<>> -> 0
      [] st = <<"+", "2">> -> 2
      [] st = <<"-", "1">> -> -1
      [] st = <<"+", "2", "-", "3">> -> -1

\* groups followed by static modifiers, and pairs of groups joined by a sign,
\* each with the value its static modifiers stand for
StaticTable ==
    {<<c \o <<"d">> \o sd \o st, StaticValue(st)>> :
        c \in Counts, sd \in Sides, st \in Statics}
    \cup {<<a \o sep \o b \o st, StaticValue(st)>> :
        a \in PairGroups, b \in PairGroups,
        sep \in {<<"+">>, <<"-">>}, st \in {<<>>, <<"-", "1">>}}

\* one group, leftover text, static modifiers, with the value they stand for
LeftoverTable ==
    {<<g \o j \o st, StaticValue(st)>> :
        g \in LeftGroups, j \in Junk, st \in Statics}

\* C16: static_modifier is the signed sum of every +N/-N token in the text
\* that remains once the dice-group tokens are removed, 0 if there is none;
\* other leftover characters are ignored and cause no parse error; digits
\* consumed by a dice group are never counted as a static modifier.
C16_StaticModifier ==
    pc # "new" =>
        /\ \A e \in StaticTable :
              original_notation = e[1] =>
                  error = <<>> /\ static_mod = e[2]
        /\ \A e \in LeftoverTable :
              original_notation = e[1] =>
                  error = <<>> /\ Len(dice_sets) = 1 /\ static_mod = e[2]
        /\ original_notation = <<"2", "d", "3", "+", "d", "2", "!", "1">> =>
              error = <<>> /\ static_mod = 1
        /\ original_notation = <<"2", " ", "d", "3", " ", "+", " ", "1">> =>
              error = <<>> /\ static_mod = 1
        /\ original_notation = <<"2", ".", "2", "d", "3">> =>
              error = <<>> /\ static_mod = 0

C16_Witness ==
    /\ Rolled
    /\ original_notation = <<"2", "d", "2", "*", "2", "+", "2", "-", "3">>
    /\ Len(dice_sets) = 1 /\ static_mod = -1
    /\ result[1].kept = << <<2, 1>> >> /\ result[1].total = 2

\* format_result() has returned the text of a stored result
Formatted == pc = "idle" /\ error = <<>> /\ ret.kind = "text" /\ result # <<>>

\* the positions of the `Set i` lines of a formatted block
SetAt(L) == {j \in 1..Len(L) : L[j].tag = "Set"}

\* L is the multi-line block: `Result: total`, one `Set i` entry per group in
\* parse order with its raw rolls, a `Kept` line exactly for the groups with
\* keep/drop, and a last `Static modifier` line exactly when it is nonzero
IsBlock(L) ==
    /\ Len(L) >= 1 /\ L[1].tag = "Result" /\ L[1].num = result[1].total
    /\ Cardinality(SetAt(L)) = Len(dice_sets)
    /\ \A j \in SetAt(L) :
          /\ L[j].num \in 1..Len(dice_sets)
          /\ L[j].num = Cardinality({q \in SetAt(L) : q <= j})
          /\ j + 1 <= Len(L) /\ L[j + 1].tag = "Rolled"
          /\ L[j + 1].list = result[1].rolls[L[j].num]
          /\ IsKeepDrop(dice_sets[L[j].num]) <=>
                (j + 2 <= Len(L) /\ L[j + 2].tag = "Kept")
          /\ IsKeepDrop(dice_sets[L[j].num]) =>
                L[j + 2].list = result[1].kept[L[j].num]
    /\ \A j \in 1..Len(L) :
          /\ L[j].tag \in {"Result", "Set", "Rolled", "Kept", "Static modifier"}
          /\ L[j].tag = "Result" => j = 1
          /\ L[j].tag \in {"Rolled", "Kept"} => L[j - 1].tag \in {"Set", "Rolled"}
          /\ L[j].tag = "Static modifier" => j = Len(L) /\ L[j].num = static_mod
    /\ (static_mod # 0) <=> L[Len(L)].tag = "Static modifier"

\* L is the compact form `{total} {kept_rolls}`
IsCompact(L) ==
    L = <<Line("simple", result[1].total, result[1].kept[1], <<>>)>>

\* C17: format_result() returns the compact form `{total} {kept_rolls}`
\* exactly when the expression has one group and no success test, and in
\* every other non-error case the multi-line block.
C17_FormatShape ==
    Formatted =>
        IF Len(dice_sets) = 1 /\ ~HasTest(dice_sets[1])
        THEN IsCompact(ret.lines)
        ELSE IsBlock(ret.lines)

\* main() was run with exactly one argument that is not a help flag
RanNotation == IF Len(argv) = 1 THEN argv[1] \notin HelpFlags ELSE FALSE

\* main() is over: the process has exited, or died of an uncaught exception
MainOver == exit_status # None

\* C18: `dice <notation>` with one non-help argument has exactly two
\* outcomes: the notation fails to parse, the error message is printed to
\* standard output and the status is 1; or it parses, the formatted result is
\* printed and the status is 0; no parsed notation leads to another error or
\* status. One help flag exits 0, no argument or several exit 1.
C18_CliOutcomes ==
    MainOver =>
        /\ RanNotation =>
              \/ /\ ~HasDiceToken(Normalize(argv[1]))
                 /\ exit_status = 1
                 /\ stdout = <<Line("error", 0, <<>>, error)>>
                 /\ SubSeq(error, 3, Len(error) - 1) = argv[1]
              \/ /\ HasDiceToken(Normalize(argv[1]))
                 /\ exit_status = 0
                 /\ pc = "exited" /\ result # <<>>
                 /\ stdout = FormatLines(dice_sets, static_mod, result[1])
        /\ (IF Len(argv) = 1 THEN argv[1] \in HelpFlags ELSE FALSE) =>
              exit_status = 0
        /\ (Len(argv) # 1 /\ \A k \in 1..Len(argv) : argv[k] \notin HelpFlags) =>
              exit_status = 1

\* the points of roll() inside the exploding stage
ExplodePcs == {"explode", "compound", "penetrate"}

\* the stage that follows the reroll stage for a group
StageAfterReroll(ds) == IF ds.explode_type = NoneStr THEN "tail" ELSE "explode"

\* C19: for each group the stages run in the order roll, reroll, explode,
\* keep/drop, success count, whatever the input: rerolling precedes the
\* explosion test and keeps the list length, the explosion test is made on
\* the values the reroll left, keep/drop selects from the list exploding
\* left, and successes are counted over the kept list only.
C19_StageOrder ==
    [][/\ pc = "roll" =>
             \/ pc' = "raised"
             \/ /\ gi' = gi /\ Len(rolls') = dice_sets[gi].count
                /\ pc' = IF dice_sets[gi].mod_type \in {"r", "rr"} THEN "reroll"
                         ELSE StageAfterReroll(dice_sets[gi])
       /\ pc = "reroll" =>
             /\ gi' = gi /\ Len(rolls') = Len(rolls)
             /\ pc' \in {"reroll", StageAfterReroll(dice_sets[gi])}
       /\ pc \in ExplodePcs =>
             /\ gi' = gi /\ pc' \in ExplodePcs \cup {"tail"}
             /\ Len(rolls') > Len(rolls) =>
                   rolls[i] = dice_sets[gi].sides
             /\ (pc' = "tail" /\ dice_sets[gi].explode_type = "!"
                 /\ dice_sets[gi].sides # FUDGE) =>
                   Len(rolls) - dice_sets[gi].count =
                       CountOf(rolls, dice_sets[gi].sides)
       /\ pc = "tail" =>
             /\ pc' \in {"roll", "finish"}
             /\ all_rolls' = Append(all_rolls, rolls)
             /\ Len(all_kept') = Len(all_kept) + 1
             /\ LET kept == all_kept'[Len(all_kept')]
                IN  /\ IF IsKeepDrop(dice_sets[gi])
                       THEN \E S \in SUBSET (1..Len(rolls)) :
                               /\ kept = AtPositions(rolls, S)
                               /\ Cardinality(S) =
                                     IF IsKeep(dice_sets[gi])
                                     THEN Selects(rolls, dice_sets[gi])
                                     ELSE Len(rolls) - Selects(rolls, dice_sets[gi])
                       ELSE kept = rolls
                    /\ successes' - successes =
                          IF HasTest(dice_sets[gi])
                          THEN PassCount(kept, dice_sets[gi]) ELSE 0
                    /\ all_totals' = Append(all_totals, SumSeq(kept))]_vars

C19_Witness ==
    /\ Rolled
    /\ original_notation = <<"2", "d", "2", "r", "2", "!">>
    /\ dice_sets[1].mod_type = "r" /\ dice_sets[1].explode_type = "!"
    /\ draws = 5
    /\ result[1].rolls = << <<1, 2, 1>> >>

\* the keep/drop value roll() used for group k of a result: the number of
\* dice a keep retained, the number a drop removed
UsedValue(res, k) ==
    IF IsKeep(dice_sets[k]) THEN Len(res.kept[k])
    ELSE Len(res.rolls[k]) - Len(res.kept[k])

\* C20 as stated: the keep/drop value actually used for selection is at
\* least 1 and at most the group's count, for every group including those
\* with an explode marker.
C20_ValueWithinCount ==
    Rolled =>
        \A k \in 1..Len(dice_sets) :
            IsKeepDrop(dice_sets[k]) =>
                /\ UsedValue(result[1], k) >= 1
                /\ UsedValue(result[1], k) <= dice_sets[k].count

\* C20 amended: the value used is the written value (1 when it is omitted or
\* 0) clamped to the number of dice rolled, exploded dice included: never
\* more than len(raw), at least 1 when a die was rolled and 0 for an empty
\* list, and at most `count` when the group has no explode marker.
C20_ValueWithinRolled ==
    Rolled =>
        \A k \in 1..Len(dice_sets) :
            IsKeepDrop(dice_sets[k]) =>
                LET used    == UsedValue(result[1], k)
                    written == IF ModV(dice_sets[k]) = 0 THEN 1 ELSE ModV(dice_sets[k])
                    rolled  == Len(result[1].rolls[k])
                IN  /\ used = IF written <= rolled THEN written ELSE rolled
                    /\ used <= rolled
                    /\ rolled >= 1 => used >= 1
                    /\ rolled = 0 => used = 0
                    /\ dice_sets[k].explode_type = NoneStr =>
                          used <= dice_sets[k].count

C20_Witness ==
    /\ Rolled /\ Len(dice_sets) = 1
    /\ dice_sets[1].mod_type = "kh" /\ dice_sets[1].mod_value = 3
    /\ dice_sets[1].count = 2 /\ dice_sets[1].explode_type = "!"
    /\ result[1].rolls = << <<2, 1, 2, 1>> >>
    /\ result[1].kept = << <<2, 1, 2>> >>

\* the reroll threshold of a group: the value written, 1 when it is omitted
\* or 0
Threshold(ds) ==
    IF ds.mod_value = None THEN 1
    ELSE IF ds.mod_value = 0 THEN 1 ELSE ds.mod_value

\* the positions of xs that hold a value at or below t
AtOrBelow(xs, t) == {k \in 1..Len(xs) : xs[k] <= t}

\* C21: reroll once (`r`) redraws every die at or below the threshold exactly
\* one time and keeps the new value whatever it is, leaves every die above the
\* threshold unchanged at its position, keeps the length and order of the
\* list, and makes as many random draws as there were dice at or below the
\* threshold.
C21_RerollOnce ==
    [][(pc = "reroll" /\ dice_sets[gi].mod_type = "r") =>
        /\ pc' # "reroll"
        /\ Len(rolls') = Len(rolls)
        /\ \A k \in 1..Len(rolls) :
              IF k \in AtOrBelow(rolls, Threshold(dice_sets[gi]))
              THEN rolls'[k] \in Faces(dice_sets[gi].sides)
              ELSE rolls'[k] = rolls[k]
        /\ draws' - draws =
              Cardinality(AtOrBelow(rolls, Threshold(dice_sets[gi])))]_vars

\* `2d3r2` after the reroll stage: three draws were made, so exactly one die
\* was redrawn; a die first showing 1 is always redrawn, so the 1 is the
\* redrawn die: it came up at or below the threshold again and was kept
C21_Witness ==
    /\ pc = "tail" /\ calls = 1 /\ Len(dice_sets) = 1
    /\ dice_sets[1].count = 2 /\ dice_sets[1].sides = 3
    /\ dice_sets[1].mod_type = "r" /\ dice_sets[1].mod_value = 2
    /\ rolls = <<1, 3>> /\ draws = 3

\* the highest face of a die
MaxFace(sides) == IF sides = FUDGE THEN 1 ELSE sides

\* C22: reroll always (_apply_rerolls with mode 'rr') redraws each die until
\* it exceeds the threshold: the list never changes length, whenever the call
\* returns every value is above the threshold, and the call never returns
\* when the list is non-empty and the threshold is at or above the highest
\* face (a Fudge die with threshold >= 1, the default 1 included).
C22_RerollAlways ==
    /\ Len(rolls) = n
    /\ pc # "reroll" =>
          \A k \in 1..Len(rolls) : rolls[k] > Threshold(dice_sets[1])
    /\ (n > 0 /\ Threshold(dice_sets[1]) >= MaxFace(dice_sets[1].sides)) =>
          pc = "reroll"

\* one d3 with the default threshold, redrawn twice before it showed a 3
C22_Witness ==
    /\ pc = "tail" /\ dice_sets[1].mod_type = "rr"
    /\ dice_sets[1].sides = 3 /\ dice_sets[1].mod_value = None
    /\ rolls = <<3>> /\ draws = 2

\* one Fudge die with the default threshold, still in the loop after
\* MaxRedraws draws
C22_StillRerolling ==
    /\ pc = "reroll" /\ dice_sets[1].mod_type = "rr"
    /\ dice_sets[1].sides = FUDGE /\ dice_sets[1].mod_value = None
    /\ Len(rolls) = 1 /\ i = 1 /\ draws = MaxRedraws

\* the compounding loop (`!!`) of a numeric group is running
InCompound ==
    /\ pc \in {"explode", "compound"}
    /\ dice_sets[gi].explode_type = "!!" /\ dice_sets[gi].sides # FUDGE

\* C23: compounding exploding (`!!`) never appends an entry and changes no
\* entry but the one it is at; a die not at the maximum is stored unchanged
\* without a draw; a die at the maximum gets exactly one extra draw added
\* into its own entry, after which the accumulated value is no longer the
\* maximum, so its final value is in [sides + 1, 2 * sides] and the loop on a
\* die ends after one pass for every side count, 1 included.
C23_Compounding ==
    [][InCompound =>
        /\ Len(rolls') = Len(rolls)
        /\ \A k \in 1..Len(rolls) : k # i => rolls'[k] = rolls[k]
        /\ pc = "explode" => rolls' = rolls /\ draws' = draws
        /\ (pc = "compound" /\ val = dice_sets[gi].sides) =>
              /\ rolls[i] = dice_sets[gi].sides
              /\ draws' = draws + 1 /\ rolls' = rolls
              /\ pc' = "compound" /\ val' # dice_sets[gi].sides
              /\ val' >= dice_sets[gi].sides + 1
              /\ val' <= 2 * dice_sets[gi].sides
        /\ (pc = "compound" /\ val # dice_sets[gi].sides) =>
              /\ draws' = draws /\ pc' = "explode" /\ i' = i + 1
              /\ rolls'[i] = val
              /\ rolls[i] # dice_sets[gi].sides => rolls'[i] = rolls[i]
              /\ rolls[i] = dice_sets[gi].sides =>
                    /\ rolls'[i] >= dice_sets[gi].sides + 1
                    /\ rolls'[i] <= 2 * dice_sets[gi].sides]_vars

\* `2d2!!`: the first die rolled 2 and then 2 again, the second rolled 1
C23_Witness ==
    /\ pc = "tail" /\ calls = 1 /\ Len(dice_sets) = 1
    /\ dice_sets[1].count = 2 /\ dice_sets[1].sides = 2
    /\ dice_sets[1].explode_type = "!!" /\ dice_sets[1].mod_type = NoneStr
    /\ rolls = <<4, 1>> /\ draws = 3

\* `2d1!!` has left the stage: each die took one extra draw
C23_OneSided ==
    /\ pc = "tail" /\ calls = 1 /\ Len(dice_sets) = 1
    /\ dice_sets[1].count = 2 /\ dice_sets[1].sides = 1
    /\ dice_sets[1].explode_type = "!!"
    /\ rolls = <<2, 2>> /\ draws = 4

\* the penetrating loop (`!p`) of a numeric group is running
InPenetrating ==
    /\ pc \in {"explode", "penetrate"}
    /\ dice_sets[gi].explode_type = "!p" /\ dice_sets[gi].sides # FUDGE

\* C24: in penetrating exploding (`!p`) only the original dice trigger (the
\* scan stops after the first N entries and tests original entries only);
\* the original entries never change; an original die not at the maximum
\* appends nothing and draws nothing; each draw made for a die at the maximum
\* appends one entry, max(1, draw - 1), and the run for that die goes on
\* exactly while the draw is the maximum; for sides >= 2 every appended value
\* is in [1, sides - 1].
C24_Penetrating ==
    [][InPenetrating =>
        /\ i <= n => (i' <= n + 1 /\ i' >= i)
        /\ SubSeq(rolls', 1, Len(rolls)) = rolls
        /\ Len(rolls') <= Len(rolls) + 1
        /\ (pc = "explode" /\ i <= n /\ rolls[i] # dice_sets[gi].sides) =>
              rolls' = rolls /\ draws' = draws /\ pc' = "explode"
        /\ (pc = "explode" /\ i <= n /\ rolls[i] = dice_sets[gi].sides) =>
              /\ rolls' = rolls /\ draws' = draws + 1 /\ pc' = "penetrate"
              /\ val' \in 1..dice_sets[gi].sides
        /\ (pc = "explode" /\ i > n) =>
              rolls' = rolls /\ draws' = draws /\ pc' = "tail"
        /\ pc = "penetrate" =>
              /\ i <= n /\ rolls[i] = dice_sets[gi].sides
              /\ rolls' = Append(rolls, IF val - 1 >= 1 THEN val - 1 ELSE 1)
              /\ dice_sets[gi].sides >= 2 =>
                    /\ rolls'[Len(rolls')] >= 1
                    /\ rolls'[Len(rolls')] <= dice_sets[gi].sides - 1
              /\ IF val = dice_sets[gi].sides
                 THEN pc' = "penetrate" /\ draws' = draws + 1 /\ i' = i
                 ELSE pc' = "explode" /\ draws' = draws /\ i' = i + 1]_vars

\* `2d2!p`: the first die rolled 2, drew 2 (stored as 1) and then 1 (stored
\* as 1); the second rolled 1
C24_Witness ==
    /\ pc = "tail" /\ calls = 1 /\ Len(dice_sets) = 1
    /\ dice_sets[1].count = 2 /\ dice_sets[1].sides = 2
    /\ dice_sets[1].explode_type = "!p" /\ dice_sets[1].mod_type = NoneStr
    /\ rolls = <<2, 1, 1, 1>> /\ draws = 4

\* C25: a parsed group has a comparison operator if and only if it has an
\* integer target value; an operator with no integer after it is not a
\* success test and leaves the total the sum of the kept dice plus the static
\* modifier.
C25_OperatorHasValue ==
    /\ Constructed =>
          \A k \in 1..Len(dice_sets) :
              dice_sets[k].target_op # NoneStr <=> dice_sets[k].target_value # None
    /\ (Rolled /\ ~AnyTest(dice_sets)) =>
          result[1].total = KeptSum(result[1]) + static_mod

\* the value of a modifier is missing or written as 0
NoValue(ds) == ds.mod_value = None \/ ds.mod_value = 0

FormatsStored ==
    /\ pc = "idle" /\ result # <<>>
    /\ pc' = "idle" /\ calls' = calls + 1

\* the number of dice listed in the raw rolls of the running roll()
DiceListed == SumSeq([k \in 1..Len(all_rolls) |-> Len(all_rolls[k])])

\* no group rerolls or compounds: every draw of a roll() is a listed die
EveryDrawListed ==
    \A k \in 1..Len(dice_sets) :
        /\ dice_sets[k].mod_type \notin {"r", "rr"}
        /\ dice_sets[k].explode_type # "!!"

\* C27: once a result is stored, format_result() draws nothing, leaves the
\* result as it is, and returns the text of that result: the same text as the
\* format_result() call before it, showing the total of the last roll(). On
\* an error-free object never rolled it runs roll() once and returns the text
\* of that roll; roll() stores the lists of its own run. main() prints the
\* result of the one roll it made.
C27_FormatKeepsResult ==
    [][/\ FormatsStored =>
             /\ draws' = draws /\ result' = result
             /\ ret'.kind = "text"
             /\ ret'.lines = FormatLines(dice_sets, static_mod, result[1])
             /\ ret'.lines[1].num = result[1].total
             /\ ret.kind = "text" => ret' = ret
       /\ (pc = "idle" /\ result # <<>> /\ pc' # "idle") => caller' = "roll"
       /\ (pc = "idle" /\ result = <<>> /\ error = <<>> /\ pc' # "idle") =>
             /\ draws' = draws /\ result' = result
             /\ gi' = 1 /\ all_rolls' = <<>>
       /\ pc = "finish" =>
             /\ draws' = draws
             /\ result'[1].rolls = all_rolls /\ result'[1].kept = all_kept
             /\ (result = <<>> /\ EveryDrawListed) => draws = DiceListed
             /\ caller = "format_result" =>
                   /\ pc' = "idle" /\ ret'.kind = "text"
                   /\ ret'.lines[1].num = result'[1].total
             /\ caller = "main" =>
                   /\ pc' = "exited" /\ calls = 0
                   /\ stdout'[1].num = result'[1].total]_vars

\* `d2` rolled twice, one draw each, and then formatted: the text shows the
\* stored total
C27_Witness ==
    /\ pc = "idle" /\ original_notation = <<"d", "2">>
    /\ calls = 3 /\ draws = 2
    /\ ret.kind = "text" /\ result # <<>>
    /\ ret.lines[1].num = result[1].total

\* _apply_keep_drop applied to xs with modifier m and value v
KeepDropOf(xs, m, v) ==
    ApplyKeepDrop(xs, [count |-> Len(xs), sides |-> 0, mod_type |-> m,
                       mod_value |-> v, explode_type |-> NoneStr,
                       target_op |-> NoneStr, target_value |-> None])

\* xs and ys hold the same values the same number of times
SameBag(xs, ys) ==
    /\ Len(xs) = Len(ys)
    /\ \A j \in 1..Len(xs) : CountOf(xs, xs[j]) = CountOf(ys, xs[j])

\* C28: for every roll list of length N and every V with 1 <= V < N, `kh V`
\* and `dl (N - V)` retain the same multiset of values and the same sum, and
\* so do `kl V` and `dh (N - V)`.
C28_KeepDropDual ==
    pc = "tail" =>
        \A v \in 1..(Len(rolls) - 1) :
            /\ SameBag(KeepDropOf(rolls, "kh", v),
                       KeepDropOf(rolls, "dl", Len(rolls) - v))
            /\ SumSeq(KeepDropOf(rolls, "kh", v)) =
                  SumSeq(KeepDropOf(rolls, "dl", Len(rolls) - v))
            /\ SameBag(KeepDropOf(rolls, "kl", v),
                       KeepDropOf(rolls, "dh", Len(rolls) - v))
            /\ SumSeq(KeepDropOf(rolls, "kl", v)) =
                  SumSeq(KeepDropOf(rolls, "dh", Len(rolls) - v))

\* a tie at the cut: of 2, 3, 2 `kh2` keeps positions 1 and 2 and `dl1`
\* positions 2 and 3, the same values in another order
C28_Witness ==
    /\ pc = "tail" /\ rolls = <<2, 3, 2>>
    /\ KeepDropOf(rolls, "kh", 2) = <<2, 3>>
    /\ KeepDropOf(rolls, "dl", 1) = <<3, 2>>
    /\ KeepDropOf(rolls, "kl", 1) = <<2>>
    /\ KeepDropOf(rolls, "dh", 2) = <<2>>

\* every pair of groups written with `-` between them, with what the same
\* pair written with `+` is parsed into
SignTable ==
    {<<a \o <<"-">> \o b \o st,
       ParseNotation(Normalize(a \o <<"+">> \o b \o st))>> :
        a \in PairGroups, b \in PairGroups, st \in {<<>>, <<"-", "1">>}}

\* C29: the sign written in front of a dice group has no effect: a pair of
\* groups joined by `-` is parsed into the same groups and the same static
\* modifier as the pair joined by `+`, without error, and in sum mode the
\* total is the kept sum of the first group plus the kept sum of the second
\* plus the static modifier.
C29_GroupSignIgnored ==
    Constructed =>
        \A e \in SignTable :
            original_notation = e[1] =>
                /\ error = <<>> /\ ~e[2].raised
                /\ dice_sets = e[2].dice_sets /\ Len(dice_sets) = 2
                /\ static_mod = e[2].static_mod
                /\ (Rolled /\ ~AnyTargetOp(dice_sets)) =>
                      result[1].total =
                          SumSeq(result[1].kept[1]) + SumSeq(result[1].kept[2])
                          + static_mod

\* `2d2-d2-1` rolled 1 and 2, then 2: the total is 1 + 2 + 2 - 1
C29_Witness ==
    /\ Rolled
    /\ original_notation = <<"2", "d", "2", "-", "d", "2", "-", "1">>
    /\ static_mod = -1
    /\ result[1].kept = << <<1, 2>>, <<2>> >>
    /\ result[1].total = 4

\* the notations of OrderNotations: the text, the part of it that is the
\* group, and the modifier, its value, the explode marker and the operator
\* the group carries
OrderTable ==
    { <<<<"3", "d", "3", "r", "1", "k", "h", "2">>, 5, "r", 1, NoneStr, NoneStr>>,
      <<<<"3", "d", "3", "!", "k", "h", "2">>, 4, NoneStr, None, "!", NoneStr>>,
      <<<<"3", "d", "3", "k", "h", "2", "r", "1">>, 6, "kh", 2, NoneStr, NoneStr>>,
      <<<<"3", "d", "3", "k", "h", "2", "d", "l", "1">>, 6, "kh", 2, NoneStr, NoneStr>>,
      <<<<"2", "d", "3", ">", "1", "!">>, 5, NoneStr, None, NoneStr, ">">>,
      <<<<"2", "d", "3", ">", "2", "k", "h">>, 5, NoneStr, None, NoneStr, ">">>,
      <<<<"2", "d", "3", "!", "r", "2">>, 4, NoneStr, None, "!", NoneStr>> }

\* C30: every group carries at most one of keep/drop or reroll, and suffixes
\* are recognised only in the order modifier, explode marker, success test: a
\* second modifier or a suffix out of order stays in the ignored remainder,
\* raises no error, and has no effect on the rolls, the kept list or the
\* total: without keep/drop in the group every die rolled is kept, and
\* without reroll and explode marker only the dice of the count are drawn.
C30_OneModifierInOrder ==
    Constructed =>
        /\ \A k \in 1..Len(dice_sets) :
              dice_sets[k].mod_type \in
                  {NoneStr, "kh", "kl", "dh", "dl", "r", "rr"}
        /\ \A e \in OrderTable :
              original_notation = e[1] =>
                  /\ error = <<>> /\ Len(dice_sets) = 1 /\ static_mod = 0
                  /\ SubDice(notation) = SubSeq(e[1], e[2] + 1, Len(e[1]))
                  /\ dice_sets = ParseNotation(SubSeq(e[1], 1, e[2])).dice_sets
                  /\ dice_sets[1].mod_type = e[3]
                  /\ dice_sets[1].mod_value = e[4]
                  /\ dice_sets[1].explode_type = e[5]
                  /\ dice_sets[1].target_op = e[6]
                  /\ (Rolled /\ e[3] # "kh") =>
                        result[1].kept = result[1].rolls
                  /\ (Rolled /\ e[3] = "kh") =>
                        Len(result[1].kept[1]) = 2
                  /\ (Rolled /\ e[6] = NoneStr) =>
                        result[1].total = SumSeq(result[1].kept[1])
                  /\ (Rolled /\ calls = 1 /\ e[3] # "r" /\ e[5] = NoneStr) =>
                        /\ draws = dice_sets[1].count
                        /\ Len(result[1].rolls[1]) = dice_sets[1].count

\* `3d3!kh2` rolled 1, 3, 2 and then 2 for the 3: all four dice are kept and
\* summed, the `kh2` has selected nothing
C30_Witness ==
    /\ Rolled /\ original_notation = <<"3", "d", "3", "!", "k", "h", "2">>
    /\ result[1].rolls = << <<1, 3, 2, 2>> >>
    /\ result[1].kept = << <<1, 3, 2, 2>> >>
    /\ result[1].total = 8

====
